---- MODULE Spec2Model ----
(***************************************************************************)
(* Model of Imap.execute (nodes/Imap/Imap.node.ts): credential resolution, *)
(* the single IMAP connection, the per-item dispatch loop, the error       *)
(* composition and the cleanup path.  One behaviour is one execution of    *)
(* execute(); the actions are the stretches of code between two awaits.    *)
(***************************************************************************)
EXTENDS Integers, Sequences, FiniteSets, TLC

\* ------------------------------------------------------------------ bounds
MaxItems == 3        \* input items of one execution: 0..MaxItems
MaxRecs == 2         \* records one handler call returns: 0..MaxRecs
MaxErrors == 2       \* lines ImapFlow logs during one handler call

\* --------------------------------------------------------- program constants
FIRST_ITEM_INDEX == 0
DefaultPort == 993
CREDENTIALS_TYPE_FROM_INPUT == "fromInput"

\* ------------------------------------------------------------- JS values
\* A string-typed JS value is a TLA+ string; undefined is the sentinel below.
UNDEFINED == "<undefined>"
JsTrue == "true"
JsFalse == "false"

\* JS truthiness of a string-or-undefined value
Truthy(v) == v # UNDEFINED /\ v # ""

\* a || b
Or(a, b) == IF Truthy(a) THEN a ELSE b

\* the 'authentication' parameter: the two credential stores and the input field
AuthenticationValues == {"coreImapAccount", "imapThisNode", CREDENTIALS_TYPE_FROM_INPUT}

\* items[i].json[credentialsField]: undefined, "", or an object with fields
Obj(h, u, p, port, tls, auc) ==
  [kind |-> "object", host |-> h, user |-> u, password |-> p, port |-> port,
   tls |-> tls, allowUnauthorizedCerts |-> auc]

FieldUndefined ==
  [kind |-> "undefined", host |-> UNDEFINED, user |-> UNDEFINED, password |-> UNDEFINED,
   port |-> 0, tls |-> UNDEFINED, allowUnauthorizedCerts |-> UNDEFINED]

FieldEmptyString == [FieldUndefined EXCEPT !.kind = "emptyString"]

FirstFieldValues ==
  { FieldUndefined, FieldEmptyString,
    Obj(UNDEFINED, UNDEFINED, UNDEFINED, 0, UNDEFINED, UNDEFINED),
    Obj(UNDEFINED, "u0", "p0", 0, UNDEFINED, UNDEFINED),
    Obj("h0", "", "p0", 0, UNDEFINED, UNDEFINED),
    Obj("h0", "u0", UNDEFINED, 0, UNDEFINED, UNDEFINED),
    Obj("h0", "u0", "p0", 0, UNDEFINED, UNDEFINED),
    Obj("h0", "u0", "p0", 143, JsFalse, JsTrue) }

\* the field of every later item holds complete credentials of another account
LaterField == Obj("hN", "uN", "pN", 144, JsTrue, JsFalse)

\* what getImapCredentials resolves to
StoreCredentials ==
  [source |-> "store", host |-> "hS", user |-> "uS", password |-> "pS", port |-> 993,
   tls |-> TRUE, allowUnauthorizedCerts |-> FALSE]

NoCredentials ==
  [source |-> "none", host |-> UNDEFINED, user |-> UNDEFINED, password |-> UNDEFINED,
   port |-> 0, tls |-> FALSE, allowUnauthorizedCerts |-> FALSE]

\* ------------------------------------------------------------- errors
\* ref is the identity of the error object: who constructed it.
Err(ref, napi, rt, msg, desc) ==
  [ref |-> ref, isNodeApiError |-> napi, responseText |-> rt, message |-> msg,
   description |-> desc]

NoError == Err("none", FALSE, UNDEFINED, UNDEFINED, UNDEFINED)

\* new NodeApiError(this.getNode(), {}, {message, description})
NewNodeApiError(msg, desc) == Err("execute", TRUE, UNDEFINED, msg, desc)

\* what a handler may throw
HandlerErrors ==
  { Err("handler", TRUE, UNDEFINED, "handler failed", UNDEFINED),
    Err("handler", TRUE, UNDEFINED, "handler failed", "handler description") }
  \cup { Err("handler", FALSE, rt, msg, UNDEFINED) :
           rt \in {UNDEFINED, "", "NO rejected"}, msg \in {UNDEFINED, "", "boom"} }

\* what client.connect() may throw
ConnectErrors ==
  { Err("connect", FALSE, rt, msg, UNDEFINED) :
      rt \in {UNDEFINED, "NO login"}, msg \in {"", "refused"} }

\* what getNodeParameter / getImapCredentials may throw
HostError == Err("host", FALSE, UNDEFINED, "host failure", UNDEFINED)

\* ------------------------------------------------------- handler results
NoData == [hasData |-> FALSE, recs |-> <<>>]

\* the k records a handler returns for item i, each tagged with its origin
Records(i, k) == [j \in 1..k |-> <<i, j>>]

HandlerResults(i) == {NoData} \cup { [hasData |-> TRUE, recs |-> Records(i, k)] : k \in 0..MaxRecs }

\* the n-th line ImapFlow logs during one handler call
ImapErrorLine(n) == IF n = 1 THEN "E1" ELSE IF n = 2 THEN "E2" ELSE "E3"

VARIABLES
  authentication,   \* parameter 'authentication' of item 0
  items,            \* getInputData(): the credentials field of each item
  handlerKnown,     \* whether resource/operation names a handler
  pc,               \* "start" | "connecting" | "inHandler" | "done"
  credentials,      \* the credentials handed to createImapClient
  getImapCredentialsCalls,
  credReads,        \* indexes of the items whose field was read as credentials
  clientsCreated,   \* createImapClient calls; the k-th client has id k
  client,           \* const client of this execution (0: none yet)
  connectCalls,
  connected,        \* client.connect() resolved
  logoutCalls,
  itemIndex,
  calls,            \* executeImapAction calls so far: [item, client, state]
  returned,         \* what the settled handler calls returned, in call order
  resultItems,
  catcher,          \* the ImapFlowErrorCatcher singleton
  catcherLog,       \* "start" / "stop" calls on the catcher, in order
  thrown,           \* the error a handler threw, and what stopAndGetErrors gave
  captured,
  outcome,          \* "running" | "returned" | "raised"
  resultBranches,   \* the value execute() returned
  raised            \* the error execute() raised

vars ==
  <<authentication, items, handlerKnown, pc, credentials, getImapCredentialsCalls,
    credReads, clientsCreated, client, connectCalls, connected, logoutCalls, itemIndex, calls,
    returned, resultItems, catcher, catcherLog, thrown, captured, outcome,
    resultBranches, raised>>

inputs == <<authentication, items, handlerKnown>>

ItemLists ==
  { <<>> } \cup
  UNION { { [i \in 1..n |-> IF i = 1 THEN f ELSE LaterField] : f \in FirstFieldValues } :
          n \in 1..MaxItems }

Init ==
  /\ authentication \in AuthenticationValues
  /\ items \in ItemLists
  /\ handlerKnown \in BOOLEAN
  /\ pc = "start"
  /\ credentials = NoCredentials
  /\ getImapCredentialsCalls = 0
  /\ credReads = {}
  /\ clientsCreated = 0
  /\ client = 0
  /\ connectCalls = 0
  /\ connected = FALSE
  /\ logoutCalls = 0
  /\ itemIndex = 0
  /\ calls = <<>>
  /\ returned = <<>>
  /\ resultItems = <<>>
  /\ catcher = [isCatching |-> FALSE, errors |-> <<>>]
  /\ catcherLog = <<>>
  /\ thrown = NoError
  /\ captured = <<>>
  /\ outcome = "running"
  /\ resultBranches = <<>>
  /\ raised = NoError

\* ------------------------------------------------ ImapFlowErrorCatcher
startErrorCatching(c) == [isCatching |-> TRUE, errors |-> <<>>]

\* the catcher after stopAndGetErrors(); the call returns c.errors
stopAndGetErrors(c) == [isCatching |-> FALSE, errors |-> <<>>]

onImapError(c, line) ==
  IF c.isCatching THEN [c EXCEPT !.errors = Append(c.errors, line)] ELSE c

\* ------------------------------------------------ credential resolution
CredentialsItemIndexLast(its) == Len(its) - 1

\* the item whose field holds the credentials
CredentialsItemIndex(its) == FIRST_ITEM_INDEX

InputCredentials(its) == its[CredentialsItemIndex(its) + 1]

ValidationMessageNoPassword(its) ==
  IF Len(its) = 0 THEN "No input items provided"
  ELSE IF InputCredentials(its).kind # "object" THEN "No credentials found in field"
  ELSE IF ~Truthy(InputCredentials(its).host) \/ ~Truthy(InputCredentials(its).user)
       THEN "Credentials must contain at least host, user, and password fields"
  ELSE UNDEFINED

\* the message of the NodeApiError the checks of the input credentials throw,
\* UNDEFINED when they all pass
ValidationMessage(its) ==
  IF Len(its) = 0 THEN "No input items provided"
  ELSE IF InputCredentials(its).kind # "object" THEN "No credentials found in field"
  ELSE IF \/ ~Truthy(InputCredentials(its).host)
          \/ ~Truthy(InputCredentials(its).user)
          \/ ~Truthy(InputCredentials(its).password)
       THEN "Credentials must contain at least host, user, and password fields"
  ELSE UNDEFINED

ExtractCredentials(ic) ==
  [source |-> "input",
   host |-> ic.host,
   port |-> IF ic.port # 0 THEN ic.port ELSE DefaultPort,
   user |-> ic.user,
   password |-> ic.password,
   tls |-> (ic.tls # JsFalse),
   allowUnauthorizedCerts |-> (ic.allowUnauthorizedCerts = JsTrue)]

\* ------------------------------------------------ error composition
RECURSIVE Join(_, _)
Join(strs, sep) ==
  IF Len(strs) = 0 THEN ""
  ELSE IF Len(strs) = 1 THEN strs[1]
  ELSE strs[1] \o sep \o Join(Tail(strs), sep)

InternalImapErrorsMessage(errs) == Join(errs, ", \n")

ErrorMessagePreferMessage(error, errs) ==
  IF Truthy(Or(error.message, error.responseText))
  THEN Or(error.message, error.responseText)
  ELSE IF Truthy(InternalImapErrorsMessage(errs)) THEN InternalImapErrorsMessage(errs)
  ELSE "Unknown error"

ErrorMessage(error, errs) ==
  IF Truthy(Or(error.responseText, error.message))
  THEN Or(error.responseText, error.message)
  ELSE IF Truthy(InternalImapErrorsMessage(errs)) THEN InternalImapErrorsMessage(errs)
  ELSE "Unknown error"

ErrorDescription(errs) ==
  IF Truthy(InternalImapErrorsMessage(errs))
  THEN "The following errors were reported by the IMAP server: \n"
         \o InternalImapErrorsMessage(errs)
  ELSE UNDEFINED

RethrownAlwaysWrapped(error, errs) ==
  IF error.isNodeApiError
  THEN [error EXCEPT !.description = Or(ErrorDescription(errs), error.description)]
  ELSE NewNodeApiError(ErrorMessage(error, errs), ErrorDescription(errs))

\* what the inner catch throws for a handler's error
Rethrown(error, errs) ==
  IF error.isNodeApiError THEN error
  ELSE NewNodeApiError(ErrorMessage(error, errs), ErrorDescription(errs))

\* error.responseText || error.message || 'Unknown error'
ConnectionFailedMessage(error) == Or(Or(error.responseText, error.message), "Unknown error")

\* ------------------------------------------------ the dispatch loop
PushResultFront(ri, result) == IF result.hasData THEN result.recs \o ri ELSE ri

\* if (result) resultItems.push(...result)
PushResult(ri, result) == IF result.hasData THEN ri \o result.recs ELSE ri

NextItemIndexStuck(i) == i

\* itemIndex++
NextItemIndex(i) == i + 1

\* client.logout() of the normal path
CloseConnection(n) == n + 1

OuterCatchNoLogout(n) == n

\* client.logout() of the outer catch
OuterCatchLogout(n) == n + 1

InnerCatchNoStop(c, log) == [catcher |-> c, log |-> log, errors |-> c.errors]

\* const internalImapErrors = ImapFlowErrorCatcher.getInstance().stopAndGetErrors()
InnerCatchStop(c, log) ==
  [catcher |-> stopAndGetErrors(c), log |-> Append(log, "stop"), errors |-> c.errors]

Settle(cs, st) == [cs EXCEPT ![Len(cs)].state = st]

\* execute() raises e; logouts is the number of logout calls by then
Raise(e, logouts) ==
  /\ pc' = "done"
  /\ outcome' = "raised"
  /\ raised' = e
  /\ logoutCalls' = logouts
  /\ UNCHANGED resultBranches

\* the loop header with index i: either the next handler call starts, or the
\* loop is over, the connection is closed and execute() returns
LoopStep(i, ri, cs) ==
  /\ itemIndex' = i
  /\ resultItems' = ri
  /\ IF i < Len(items)
     THEN /\ catcher' = startErrorCatching(catcher)
          /\ catcherLog' = Append(catcherLog, "start")
          /\ calls' = Append(cs, [item |-> i, client |-> client, state |-> "pending"])
          /\ pc' = "inHandler"
          /\ UNCHANGED <<logoutCalls, outcome, resultBranches, raised>>
     ELSE /\ logoutCalls' = CloseConnection(logoutCalls)
          /\ resultBranches' = <<ri>>
          /\ outcome' = "returned"
          /\ pc' = "done"
          /\ calls' = cs
          /\ UNCHANGED <<catcher, catcherLog, raised>>

\* createImapClient(credentials, ...) and the call of client.connect()
CreateClientAndConnect(creds) ==
  /\ credentials' = creds
  /\ clientsCreated' = clientsCreated + 1
  /\ client' = clientsCreated + 1
  /\ connectCalls' = connectCalls + 1
  /\ pc' = "connecting"
  /\ UNCHANGED <<logoutCalls, outcome, resultBranches, raised>>

\* ------------------------------------------------ actions
\* authentication = 'fromInput': validate and extract the first item's field
ResolveFromInput ==
  /\ pc = "start"
  /\ authentication = CREDENTIALS_TYPE_FROM_INPUT
  /\ credReads' = IF Len(items) = 0 THEN {} ELSE {CredentialsItemIndex(items)}
  /\ IF ValidationMessage(items) # UNDEFINED
     THEN /\ Raise(NewNodeApiError(ValidationMessage(items), UNDEFINED), logoutCalls)
          /\ UNCHANGED <<credentials, clientsCreated, client, connectCalls>>
     ELSE CreateClientAndConnect(ExtractCredentials(InputCredentials(items)))
  /\ UNCHANGED <<inputs, getImapCredentialsCalls, connected, itemIndex, calls, returned,
                 resultItems, catcher, catcherLog, thrown, captured>>

\* any other authentication: await getImapCredentials(this)
ResolveFromStore ==
  /\ pc = "start"
  /\ authentication # CREDENTIALS_TYPE_FROM_INPUT
  /\ getImapCredentialsCalls' = getImapCredentialsCalls + 1
  /\ \E ok \in BOOLEAN :
       IF ok
       THEN CreateClientAndConnect(StoreCredentials)
       ELSE /\ Raise(HostError, logoutCalls)
            /\ UNCHANGED <<credentials, clientsCreated, client, connectCalls>>
  /\ UNCHANGED <<inputs, credReads, connected, itemIndex, calls, returned,
                 resultItems, catcher, catcherLog, thrown, captured>>

ConnectRejectsRetry ==
  /\ pc = "connecting"
  /\ connectCalls < 3
  /\ connectCalls' = connectCalls + 1
  /\ UNCHANGED <<inputs, pc, credentials, getImapCredentialsCalls, credReads,
                 clientsCreated, client, connected, logoutCalls, itemIndex, calls,
                 returned, resultItems, catcher, catcherLog, thrown, captured, outcome,
                 resultBranches, raised>>

\* client.connect() rejects: NodeApiError, no logout
ConnectRejects ==
  /\ pc = "connecting"
  /\ \E e \in ConnectErrors :
       Raise(NewNodeApiError(ConnectionFailedMessage(e), UNDEFINED), logoutCalls)
  /\ UNCHANGED <<inputs, credentials, getImapCredentialsCalls, credReads, clientsCreated,
                 client, connectCalls, connected, itemIndex, calls, returned, resultItems,
                 catcher, catcherLog, thrown, captured>>

\* client.connect() resolves: parameters, handler lookup, first loop header
ConnectResolves ==
  /\ pc = "connecting"
  /\ connected' = TRUE
  /\ \E paramsOk \in BOOLEAN :
       IF ~paramsOk
       THEN /\ Raise(HostError, OuterCatchLogout(logoutCalls))
            /\ UNCHANGED <<itemIndex, calls, resultItems, catcher, catcherLog>>
       ELSE IF ~handlerKnown
       THEN /\ Raise(NewNodeApiError("Unknown operation", UNDEFINED),
                     OuterCatchLogout(logoutCalls))
            /\ UNCHANGED <<itemIndex, calls, resultItems, catcher, catcherLog>>
       ELSE LoopStep(0, <<>>, calls)
  /\ UNCHANGED <<inputs, credentials, getImapCredentialsCalls, credReads, clientsCreated,
                 client, connectCalls, returned, thrown, captured>>

\* ImapFlow logs an error line while a handler call is in flight
OnImapError ==
  /\ pc = "inHandler"
  /\ Len(catcher.errors) < MaxErrors
  /\ catcher' = onImapError(catcher, ImapErrorLine(Len(catcher.errors) + 1))
  /\ UNCHANGED <<inputs, pc, credentials, getImapCredentialsCalls, credReads,
                 clientsCreated, client, connectCalls, connected, logoutCalls, itemIndex,
                 calls, returned, resultItems, catcherLog, thrown, captured, outcome,
                 resultBranches, raised>>

\* handler.executeImapAction resolves
HandlerResolves ==
  /\ pc = "inHandler"
  /\ \E result \in HandlerResults(itemIndex) :
       /\ returned' = Append(returned, result)
       /\ LoopStep(NextItemIndex(itemIndex), PushResult(resultItems, result),
                   Settle(calls, "ok"))
  /\ UNCHANGED <<inputs, credentials, getImapCredentialsCalls, credReads, clientsCreated,
                 client, connectCalls, connected, thrown, captured>>

HandlerRejectsSwallowed ==
  /\ pc = "inHandler"
  /\ \E e \in HandlerErrors :
       /\ thrown' = e
       /\ captured' = catcher.errors
       /\ itemIndex' = NextItemIndex(itemIndex)
       /\ IF NextItemIndex(itemIndex) < Len(items)
          THEN /\ calls' = Append(Settle(calls, "failed"),
                                  [item |-> itemIndex', client |-> client, state |-> "pending"])
               /\ catcher' = startErrorCatching(catcher)
               /\ catcherLog' = catcherLog \o <<"stop", "start">>
               /\ UNCHANGED <<pc, logoutCalls, outcome, resultBranches, raised>>
          ELSE /\ calls' = Settle(calls, "failed")
               /\ catcher' = stopAndGetErrors(catcher)
               /\ catcherLog' = Append(catcherLog, "stop")
               /\ logoutCalls' = CloseConnection(logoutCalls)
               /\ resultBranches' = <<resultItems>>
               /\ outcome' = "returned"
               /\ pc' = "done"
               /\ UNCHANGED raised
  /\ UNCHANGED <<inputs, credentials, getImapCredentialsCalls, credReads, clientsCreated,
                 client, connectCalls, connected, returned, resultItems>>

\* handler.executeImapAction rejects: inner catch, then outer catch
HandlerRejects ==
  /\ pc = "inHandler"
  /\ \E e \in HandlerErrors :
       /\ thrown' = e
       /\ Raise(Rethrown(e, InnerCatchStop(catcher, catcherLog).errors),
                OuterCatchLogout(logoutCalls))
  /\ captured' = InnerCatchStop(catcher, catcherLog).errors
  /\ catcher' = InnerCatchStop(catcher, catcherLog).catcher
  /\ catcherLog' = InnerCatchStop(catcher, catcherLog).log
  /\ calls' = Settle(calls, "failed")
  /\ UNCHANGED <<inputs, credentials, getImapCredentialsCalls, credReads, clientsCreated,
                 client, connectCalls, connected, itemIndex, returned, resultItems>>

Next ==
  \/ ResolveFromInput
  \/ ResolveFromStore
  \/ ConnectRejects
  \/ ConnectResolves
  \/ OnImapError
  \/ HandlerResolves
  \/ HandlerRejects

Spec == Init /\ [][Next]_vars

\* ================================================================ properties
Finished == pc = "done"

HandlerFailed == thrown # NoError

Pending == { k \in 1..Len(calls) : calls[k].state = "pending" }

RECURSIVE Flatten(_)
Flatten(rs) ==
  IF rs = <<>> THEN <<>>
  ELSE (IF Head(rs).hasData THEN Head(rs).recs ELSE <<>>) \o Flatten(Tail(rs))

Count(log, what) == Cardinality({ k \in 1..Len(log) : log[k] = what })

\* the text the claim expects for n captured lines joined by a comma
ExpectedJoined(n) ==
  IF n = 1 THEN "E1"
  ELSE IF n = 2 THEN "E1, \nE2"
  ELSE "E1, \nE2, \nE3"

\* C1: whenever client.connect() succeeded, client.logout() has been called by
\* the time execute() finishes, whether it returns or raises (a handler's
\* NodeApiError, any other handler error, an unknown resource/operation pair).
C1_LogoutWheneverConnected == (Finished /\ connected) => logoutCalls >= 1

C1_Witness ==
  /\ Finished /\ connected /\ outcome = "raised"
  /\ HandlerFailed /\ ~thrown.isNodeApiError /\ logoutCalls = 1

\* C2 as stated: every execution creates exactly one IMAP client, calls
\* connect() at most once and hands that client to every handler call.
C2_ExactlyOneClient ==
  Finished =>
    /\ clientsCreated = 1
    /\ connectCalls <= 1
    /\ \A k \in 1..Len(calls) : calls[k].client = client

\* C2 amended: at most one IMAP client is created, exactly one once the
\* credentials are resolved and none when resolving them fails; connect() is
\* called at most once, on that client, and every handler call gets that client.
C2_SingleConnection ==
  /\ clientsCreated <= 1
  /\ connectCalls <= 1
  /\ connectCalls = clientsCreated
  /\ (credentials.source # "none") <=> (clientsCreated = 1)
  /\ clientsCreated = 1 => client = 1
  /\ \A k \in 1..Len(calls) : calls[k].client = client /\ client = 1

C2_Witness ==
  /\ Finished /\ Len(calls) = MaxItems /\ HandlerFailed
  /\ clientsCreated = 1 /\ connectCalls = 1

\* C3: handler calls are made for items 0, 1, 2, ... in this order, once per
\* item; a call starts only when the call before it completed successfully,
\* and at most one call is in flight.
C3_SequentialCalls ==
  /\ \A k \in 1..Len(calls) :
       /\ calls[k].item = k - 1
       /\ k < Len(calls) => calls[k].state = "ok"
  /\ Cardinality(Pending) <= 1
  /\ Len(calls) <= Len(items)

C3_Witness == Len(calls) = 2 /\ calls[2].state = "pending" /\ calls[1].state = "ok"

C5_OneCredentialSource ==
  IF authentication = CREDENTIALS_TYPE_FROM_INPUT
  THEN /\ getImapCredentialsCalls = 0
       /\ credReads \subseteq {0}
       /\ client # 0 =>
            /\ credentials.source = "input"
            /\ credentials.host = items[1].host
            /\ credentials.user = items[1].user
            /\ credentials.password = items[1].password
  ELSE /\ credReads = {}
       /\ getImapCredentialsCalls = (IF pc = "start" THEN 0 ELSE 1)
       /\ client # 0 => credentials = StoreCredentials

C5_Witness ==
  /\ authentication = CREDENTIALS_TYPE_FROM_INPUT
  /\ Len(items) >= 2 /\ client # 0 /\ Finished
  /\ credReads = {0} /\ credentials.host = "h0"

\* C6: the first failing handler call ends the execution: no call for a later
\* item, no second call for the failing item, and execute() raises instead of
\* returning the results collected so far.
C6_FirstFailureEnds ==
  HandlerFailed =>
    /\ Finished
    /\ outcome = "raised"
    /\ raised # NoError
    /\ resultBranches = <<>>
    /\ Pending = {}
    /\ calls[Len(calls)].state = "failed"
    /\ \A k \in 1..Len(calls) - 1 : calls[k].state = "ok" /\ calls[k].item < calls[Len(calls)].item

C6_Witness ==
  /\ HandlerFailed /\ Finished
  /\ Len(calls) = 2 /\ Len(items) = 3
  /\ resultItems # <<>>

\* C7: a NodeApiError thrown by a handler is raised as that same object, its
\* message and description untouched by the captured internal errors.
C7_NodeApiErrorUnchanged ==
  (HandlerFailed /\ thrown.isNodeApiError) => (outcome = "raised" /\ raised = thrown)

C7_Witness ==
  /\ HandlerFailed /\ thrown.isNodeApiError /\ Len(captured) > 0
  /\ raised = thrown /\ raised.description = UNDEFINED

\* C8: a normal return gives one branch: the handlers' record lists
\* concatenated in item order; a handler returning no data adds nothing and
\* the loop goes on.
C8_ConcatenatedResults ==
  outcome = "returned" =>
    /\ Len(resultBranches) = 1
    /\ resultBranches[1] = Flatten(returned)
    /\ Len(returned) = Len(items)
    /\ \A k \in 1..Len(calls) : calls[k].state = "ok"
    /\ \A a, b \in 1..Len(resultBranches[1]) :
         a < b => \/ resultBranches[1][a][1] < resultBranches[1][b][1]
                  \/ /\ resultBranches[1][a][1] = resultBranches[1][b][1]
                     /\ resultBranches[1][a][2] < resultBranches[1][b][2]

C8_Witness ==
  /\ outcome = "returned" /\ Len(returned) = 3
  /\ returned[1].recs # <<>> /\ returned[2] = NoData /\ returned[3].recs # <<>>
  /\ Len(resultBranches[1]) = Len(returned[1].recs) + Len(returned[3].recs)

\* C9: with 'fromInput', no items, or a missing or empty field in the first
\* item, or a missing or empty host, user or password, makes execute() raise a
\* NodeApiError with no client created, no connect, no handler, no logout.
BadInputCredentials ==
  \/ Len(items) = 0
  \/ items[1].kind # "object"
  \/ items[1].host \in {UNDEFINED, ""}
  \/ items[1].user \in {UNDEFINED, ""}
  \/ items[1].password \in {UNDEFINED, ""}

C9_InvalidInputCredentials ==
  (authentication = CREDENTIALS_TYPE_FROM_INPUT /\ BadInputCredentials /\ pc # "start") =>
    /\ Finished
    /\ outcome = "raised"
    /\ raised.isNodeApiError
    /\ clientsCreated = 0
    /\ connectCalls = 0
    /\ calls = <<>>
    /\ logoutCalls = 0

C9_Witness ==
  /\ authentication = CREDENTIALS_TYPE_FROM_INPUT /\ Finished
  /\ Len(items) > 0 /\ items[1].kind = "object"
  /\ items[1].host = "h0" /\ items[1].user = "u0" /\ items[1].password = UNDEFINED
  /\ raised.isNodeApiError /\ clientsCreated = 0

\* C10 as stated: every startErrorCatching() is followed by a
\* stopAndGetErrors() before the next start and before execute() finishes;
\* the catcher is not catching when execute() has finished.
C10_AlwaysStopped ==
  /\ \A k \in 1..Len(catcherLog) - 1 : catcherLog[k] = "start" => catcherLog[k + 1] = "stop"
  /\ Finished => ~catcher.isCatching
  /\ (Finished /\ catcherLog # <<>>) => catcherLog[Len(catcherLog)] = "stop"

\* C10 amended: stopAndGetErrors() is called only in the catch of a failing
\* handler call: the startErrorCatching() of a failing item is followed by a
\* stop before execute() raises, so the catcher is not catching then; after a
\* successful call no stop is made, so the catcher is still catching at the
\* next start and when execute() returns after at least one item.
C10_StoppedOnlyOnFailure ==
  /\ Count(catcherLog, "start") = Len(calls)
  /\ Count(catcherLog, "stop") = (IF HandlerFailed THEN 1 ELSE 0)
  /\ HandlerFailed => (~catcher.isCatching /\ catcherLog[Len(catcherLog)] = "stop")
  /\ (~HandlerFailed /\ calls # <<>>) => catcher.isCatching
  /\ \A k \in 1..Len(catcherLog) - 1 : catcherLog[k] = "start"

C10_Witness ==
  /\ HandlerFailed /\ Finished
  /\ catcherLog = <<"start", "start", "stop">>
  /\ ~catcher.isCatching

====
